---- MODULE Spec2Model ----
(***************************************************************************)
(* firegen: a synthetic OpenTelemetry metrics generator.                   *)
(*                                                                         *)
(* The module models cmd/firegen/main.go: main() (the orchestrator), one   *)
(* generate() goroutine per simulated service (setup, stagger sleep, the   *)
(* record/collect/export tick, the ticker loop) and iterateAttributes().   *)
(* A second revision of the same file is kept in the repository            *)
(* (unnamed/part_001): there main() builds one exporter and hands it to    *)
(* every generate(), and the export timeout is interval/4 instead of one   *)
(* second.  The variable `variant` says which revision runs.               *)
(*                                                                         *)
(* Time is a discrete clock; every timer is a countdown in clock units     *)
(* (Second units make one second).  The Go runtime gives no upper bound on *)
(* how long a runnable goroutine waits, so the clock may advance at any    *)
(* moment; countdowns stop at zero.                                        *)
(***************************************************************************)
EXTENDS Integers, Sequences, FiniteSets, TLC

(* ------------------------------ bounds --------------------------------- *)

\* cfg.Services after clamping: the number of generate() goroutines.
Services == 2

\* cfg.Interval after clamping, in seconds.
Interval == 1

\* Clock units per second (the resolution of the model's clock).
Second == 4

\* Attribute lists the enumerator is checked on: at most MaxAttrs
\* definitions, each of cardinality 1 .. MaxCard.
MaxAttrs == 3
MaxCard == 3

\* cfg.Metrics after clamping: the number of gauges of each service.
Metrics == 2

\* Configurations the stagger offsets are checked on: every service count
\* 1 .. MaxOffsetServices, and intervals of 1 .. MaxOffsetInterval seconds.
MaxOffsetServices == 60
MaxOffsetInterval == 1

\* A consumer of iterateAttributes that stops early stops after 1 ..
\* MaxStop combinations.
MaxStop == 2

(* --------------------------- configuration ----------------------------- *)

\* interval := time.Duration(cfg.Interval) * time.Second
interval == Interval * Second

\* service indices, i in `for i := range cfg.Services`
Workers == 0 .. (Services - 1)

Variants == {"main.go", "part_001"}

(* ------------------------- float32 arithmetic -------------------------- *)

\* A float32 is [m, e], the value m * 2^e, with m = 0 or
\* 2^23 <= m < 2^24 (a significand of MantissaBits bits).  The exponents
\* that occur are far inside float32's range: no overflow, no subnormals.
\* Rounding is to nearest, ties to even.
MantissaBits == 24

\* The number of binary digits of m >= 0.
RECURSIVE BitLen(_)
BitLen(m) == IF m = 0 THEN 0 ELSE 1 + BitLen(m \div 2)

\* q + 1 if the discarded part (rem out of 2 * half) rounds up, else q.
RoundNearestEven(q, rem, half) ==
    IF rem > half \/ (rem = half /\ q % 2 = 1) THEN q + 1 ELSE q

\* A rounded significand that reached 2^24 is 2^23 with the next exponent.
Renormalize(q, e) ==
    IF q = 2 ^ MantissaBits THEN [m |-> 2 ^ (MantissaBits - 1), e |-> e + 1]
    ELSE [m |-> q, e |-> e]

\* float32(x) for an integer x >= 0
Float32(x) ==
    IF x = 0 THEN [m |-> 0, e |-> 0]
    ELSE LET len == BitLen(x)
         IN  IF len <= MantissaBits
             THEN [m |-> x * 2 ^ (MantissaBits - len), e |-> len - MantissaBits]
             ELSE LET s == len - MantissaBits
                  IN  Renormalize(RoundNearestEven(x \div 2 ^ s, x % 2 ^ s,
                                                   2 ^ (s - 1)), s)

\* a * b in float32: the exact 48-bit product of the significands, as
\* hi * 2^24 + lo (computed in 12-bit halves), rounded to 24 bits.
F32Mul(a, b) ==
    IF a.m = 0 \/ b.m = 0 THEN [m |-> 0, e |-> 0]
    ELSE LET a1 == a.m \div 4096
             a0 == a.m % 4096
             b1 == b.m \div 4096
             b0 == b.m % 4096
             cross == a1 * b0 + a0 * b1
             low == (cross % 4096) * 4096 + a0 * b0
             lo == low % 2 ^ MantissaBits
             hi == a1 * b1 + cross \div 4096 + low \div 2 ^ MantissaBits
             half == 2 ^ (MantissaBits - 1)
         IN  IF hi >= half
             THEN Renormalize(RoundNearestEven(hi, lo, half),
                              a.e + b.e + MantissaBits)
             ELSE Renormalize(RoundNearestEven(2 * hi + lo \div half,
                                               lo % half, half \div 2),
                              a.e + b.e + MantissaBits - 1)

\* << floor((q * d + r) * 2^k / d), remainder >> by long division (r < d).
RECURSIVE LongDiv(_, _, _, _)
LongDiv(q, r, d, k) ==
    IF k = 0 THEN << q, r >>
    ELSE LET bit == IF 2 * r >= d THEN 1 ELSE 0
         IN  LongDiv(2 * q + bit, 2 * r - bit * d, d, k - 1)

\* a / b in float32 (b # 0): the quotient of the significands to 24 bits,
\* rounded by the remainder.
F32Div(a, b) ==
    IF a.m = 0 THEN [m |-> 0, e |-> 0]
    ELSE LET k == IF a.m >= b.m THEN MantissaBits - 1 ELSE MantissaBits
             qr == LongDiv(a.m \div b.m, a.m % b.m, b.m, k)
             q == IF 2 * qr[2] > b.m \/ (2 * qr[2] = b.m /\ qr[1] % 2 = 1)
                  THEN qr[1] + 1 ELSE qr[1]
         IN  Renormalize(q, a.e - b.e - k)

\* time.Duration(f) for a float32 f >= 0: the conversion to int64 drops the
\* fraction.
Duration(f) ==
    IF f.e >= 0 THEN f.m * 2 ^ f.e
    ELSE IF 0 - f.e >= MantissaBits THEN 0
    ELSE f.m \div 2 ^ (0 - f.e)

\* time.Duration(float32(interval) * float32(i) / float32(cfg.Services))
\* for service i of n, a duration in the unit of `ival`
OffsetOf(i, n, ival) ==
    Duration(F32Div(F32Mul(Float32(ival), Float32(i)), Float32(n)))

\* offset := time.Duration(float32(interval) * float32(i) / float32(cfg.Services))
\* in clock units
offset(i) == OffsetOf(i, Services, interval)

\* exportTimeout := time.Second            (main.go)
\* exportTimeout := interval / 4           (part_001)
exportTimeout(v) == IF v = "main.go" THEN Second ELSE interval \div 4

\* exporter handles: 0 is the one main() builds (part_001), i+1 the one
\* generate() of service i builds (main.go); NoExporter is "none yet"
NoExporter == 0 - 1

\* armedFor and sinceFiring of a worker whose ticker is not timed
NotTimed == 0 - 1
MainExporter == 0
Exporters == 0 .. Services

VARIABLES
    variant,       \* which revision of the program runs
    cancelled,     \* ctx.Done() is closed (SIGINT/SIGTERM received)
    exit,          \* "running", or the process's exit status "zero"/"nonzero"
    fatal,         \* which log.Fatalf ended the process ("" if none)
    mainpc,        \* main(): "newExporter", "spawn", "wait", "returned"
    spawned,       \* number of `go generate(...)` statements executed
    pc,            \* per worker: position in generate()
    exporterOf,    \* per worker: the exporter handle generate() uses
    shutdownCalls, \* per exporter handle: number of Shutdown() calls
    sleepLeft,     \* per worker: remaining time of time.Sleep(offset)
    fireIn,        \* per worker: time to the ticker's next firing (0: no ticker)
    pending,       \* per worker: ticker.C holds a firing (channel of capacity 1)
    deadlineIn,    \* per worker: time left until exportCtx's deadline
    exportCtxErr,  \* per worker: exportCtx.Err()
    exportErr,     \* per worker: what exporter.Export returned
    report,        \* per worker: what the current tick has logged ("none": nothing)
    phaseLog,      \* per worker: phases of the current tick begun so far
    openTicks,     \* per worker: calls of tick() that have not returned
    beganCancelled,\* per worker: ctx was cancelled when the running tick() began
    timedOut,      \* per worker: this tick's exportCtx reached its deadline
    doneAtReturn,  \* per worker: ctx was cancelled when Export returned
    cancelledAsleep, \* per worker: the signal came during time.Sleep(offset)
    bothReady,     \* per worker: the signal came during a tick, and tick()
                   \* returned to the select with a firing in ticker.C
    armedFor,      \* per worker: time since time.NewTicker(interval), up to
                   \* `interval`, until the first timer-driven tick has
                   \* begun its Step 1 (NotTimed before and after)
    sinceFiring,   \* per worker: time since the ticker was armed or, later,
                   \* since its latest firing (NotTimed: no ticker)
    dropped,       \* per worker: the latest clock step fired the ticker onto
                   \* a full ticker.C while a tick was running (the firing
                   \* was dropped)
    measurements,  \* per worker: the number logged by "Exported %d
                   \* measurements" in the current tick (0: not logged)
    series,        \* per worker: the series recorded by Step 1 of its latest
                   \* tick, as << set >> (<< >>: no tick has recorded yet)
    nServices,     \* cfg.Services after clamping
    ival,          \* interval, in the unit of the specification's clock
    offsets,       \* the offsets main()'s loop computed, as << [i |-> offset] >>
                   \* (<< >>: the loop has not run)
    attrConfigs,   \* cfg.Attributes after clamping
    allAttributes, \* what slices.Collect has appended so far
    collected,     \* slices.Collect(iterateAttributes(cfg.Attributes)) returned
    stopAfter,     \* the call of yield from which a consumer that stops
                   \* early returns false (0: no such consumer has run)
    yieldCalls,    \* the calls of yield iterateAttributes made for that
                   \* consumer
    yielded        \* the value one followed iteration of the loop of
                   \* iterateAttributes handed to yield, as << value >>
                   \* (<< >>: no iteration was followed)

vars == << variant, cancelled, exit, fatal, mainpc, spawned, pc, exporterOf,
           shutdownCalls, sleepLeft, fireIn, pending, deadlineIn, exportCtxErr,
           exportErr, report, phaseLog, openTicks, beganCancelled, timedOut,
           doneAtReturn, cancelledAsleep, bothReady, armedFor, sinceFiring,
           dropped, measurements, series, nServices, ival,
           offsets, attrConfigs, allAttributes, collected, stopAfter,
           yieldCalls, yielded >>

catalogVars == << attrConfigs, allAttributes, collected, stopAfter,
                 yieldCalls, yielded >>
offsetVars == << nServices, ival, offsets >>
mainVars == << mainpc, spawned >>
timerVars == << sleepLeft, fireIn, pending, deadlineIn, armedFor,
               sinceFiring, dropped >>
tickVars == << exportCtxErr, exportErr, report, phaseLog, openTicks,
              beganCancelled, timedOut, doneAtReturn, cancelledAsleep,
              bothReady, measurements, series >>

(* ------------------------ iterateAttributes ---------------------------- *)

\* The decimal digits of n >= 0, most significant first ("%d").
RECURSIVE Digits(_)
Digits(n) == IF n < 10 THEN << n >> ELSE Append(Digits(n \div 10), n % 10)

\* d left-padded with zeros to at least `width` digits.
RECURSIVE ZeroPad(_, _)
ZeroPad(d, width) == IF Len(d) >= width THEN d ELSE ZeroPad(<< 0 >> \o d, width)

\* fmt.Sprintf("%09d", i), as its sequence of digit characters
Sprintf09d(i) == ZeroPad(Digits(i), 9)

\* attribute.String(name, fmt.Sprintf("%09d", i))
AttributeString(name, i) == [Key |-> name, Value |-> Sprintf09d(i)]

\* The concatenation of a sequence of sequences.
RECURSIVE Flatten(_)
Flatten(ss) == IF ss = << >> THEN << >> ELSE Head(ss) \o Flatten(Tail(ss))

\* A loop that counts down (`for i := Cardinality - 1; i >= 0; i--`).
RangeOf_Descending(cardinality) == [j \in 1 .. cardinality |-> cardinality - j]

\* A loop that starts at 1 instead of 0 (`for i := 1; i < Cardinality; i++`).
RangeOf_FromOne(cardinality) == [j \in 1 .. (cardinality - 1) |-> j]

\* `for i := range attrConfigs[0].Cardinality`: i = 0, 1, ..., Cardinality-1
RangeOf(cardinality) == [j \in 1 .. cardinality |-> j - 1]

\* iterateAttributes(attrConfigs): the values handed to yield, in order.
\*   if len(attrConfigs) == 0 { return }
\*   for i := range attrConfigs[0].Cardinality {
\*       attrs := []attribute.KeyValue{attribute.String(name0, "%09d" of i)}
\*       if len(attrConfigs) > 1 {
\*           for recAttrs := range iterateAttributes(attrConfigs[1:]) {
\*               yield(append(slices.Clone(attrs), recAttrs...)) }
\*       } else { yield(attrs) } }
\* (what yield returns is not looked at)
RECURSIVE IterateAttributes(_)
IterateAttributes(cfgs) ==
    IF Len(cfgs) = 0 THEN << >>
    ELSE LET first == cfgs[1]
             range == RangeOf(first.Cardinality)
             attrs(i) == << AttributeString(first.Name, i) >>
             inner(i) ==
                 IF Len(cfgs) > 1
                 THEN LET rec == IterateAttributes(Tail(cfgs))
                      IN  [k \in 1 .. Len(rec) |-> attrs(i) \o rec[k]]
                 ELSE << attrs(i) >>
         IN  Flatten([j \in 1 .. Len(range) |-> inner(range[j])])

\* attrCardinality := 1; for _, c := range cfg.Attributes { attrCardinality *= c.Cardinality }
RECURSIVE AttrCardinality(_)
AttrCardinality(cfgs) ==
    IF cfgs = << >> THEN 1
    ELSE Head(cfgs).Cardinality * AttrCardinality(Tail(cfgs))

\* The attribute names a configuration may use.
AttrNames == {"region", "pod"}

\* type attributeConfig struct { Name string; Cardinality int }, with
\* Cardinality clamped to at least 1 by main().
AttributeConfigs == [Name : AttrNames, Cardinality : 1 .. MaxCard]

\* The number of values that "%09d" renders with nine digits, and the
\* smallest cardinality with a value beyond them.
NineDigitValues == 10 ^ 9
LargeCardinality == NineDigitValues + 1

\* A configuration whose list of combinations is followed iteration by
\* iteration instead of being enumerated in full.
LargeConfigs == { << [Name |-> "region", Cardinality |-> LargeCardinality] >> }

\* The lists of definitions enumerated in full.
Enumerable(cfgs) == \A j \in 1 .. Len(cfgs) : cfgs[j].Cardinality <= MaxCard

RECURSIVE SeqsUpTo(_, _)
SeqsUpTo(S, n) ==
    IF n = 0 THEN { << >> }
    ELSE LET shorter == SeqsUpTo(S, n - 1)
         IN  shorter \cup { Append(q, x) : q \in shorter, x \in S }

\* The configuration of the README: region 2, cluster 1, pod 3.
ExampleAttributes ==
    << [Name |-> "region", Cardinality |-> 2],
       [Name |-> "cluster", Cardinality |-> 1],
       [Name |-> "pod", Cardinality |-> 3] >>

(* ------------------------------ Init ----------------------------------- *)

\* The scheduler before main() has started a worker.
SchedInit ==
    /\ variant \in Variants
    /\ cancelled = FALSE
    /\ exit = "running"
    /\ fatal = ""
    /\ mainpc = IF variant = "part_001" THEN "newExporter" ELSE "spawn"
    /\ spawned = 0
    /\ pc = [w \in Workers |-> "unborn"]
    /\ exporterOf = [w \in Workers |-> NoExporter]
    /\ shutdownCalls = [e \in Exporters |-> 0]
    /\ sleepLeft = [w \in Workers |-> 0]
    /\ fireIn = [w \in Workers |-> 0]
    /\ pending = [w \in Workers |-> FALSE]
    /\ deadlineIn = [w \in Workers |-> 0]
    /\ exportCtxErr = [w \in Workers |-> "nil"]
    /\ exportErr = [w \in Workers |-> "nil"]
    /\ report = [w \in Workers |-> "none"]
    /\ phaseLog = [w \in Workers |-> << >>]
    /\ openTicks = [w \in Workers |-> 0]
    /\ beganCancelled = [w \in Workers |-> FALSE]
    /\ timedOut = [w \in Workers |-> FALSE]
    /\ doneAtReturn = [w \in Workers |-> FALSE]
    /\ cancelledAsleep = [w \in Workers |-> FALSE]
    /\ bothReady = [w \in Workers |-> FALSE]
    /\ series = [w \in Workers |-> << >>]
    /\ measurements = [w \in Workers |-> 0]
    /\ armedFor = [w \in Workers |-> NotTimed]
    /\ sinceFiring = [w \in Workers |-> NotTimed]
    /\ dropped = [w \in Workers |-> FALSE]
    /\ stopAfter = 0
    /\ yieldCalls = 0
    /\ yielded = << >>

\* The configuration of the scheduler: Services services, the interval in
\* clock units; the offsets are computed where they are used (offset(i)).
OffsetsOfScheduler ==
    /\ nServices = Services
    /\ ival = interval
    /\ offsets = << >>

\* The attributes the scheduler runs with: the first one of the README's
\* configuration (region, cardinality 2).
SchedulerAttributes == SubSeq(ExampleAttributes, 1, 1)

\* main() has built the catalog (main.go:116) before it starts the workers.
Init ==
    /\ SchedInit
    /\ OffsetsOfScheduler
    /\ attrConfigs = SchedulerAttributes
    /\ allAttributes = IterateAttributes(SchedulerAttributes)
    /\ collected = TRUE

(* --------------------------- process exit ------------------------------ *)

Running == exit = "running"

\* The process ends with `status`: every goroutine that has not returned
\* dies where it stands, with its timers, its export context and its
\* unfinished tick.  What was logged and the Shutdown calls made so far stay.
ProcessExit(status, msg) ==
    /\ exit' = status
    /\ fatal' = msg
    /\ mainpc' = IF status = "zero" THEN "returned" ELSE "killed"
    /\ pc' = [w \in Workers |->
                 IF pc[w] \in {"unborn", "stopped"} THEN pc[w] ELSE "killed"]
    /\ sleepLeft' = [w \in Workers |-> 0]
    /\ fireIn' = [w \in Workers |-> 0]
    /\ pending' = [w \in Workers |-> FALSE]
    /\ deadlineIn' = [w \in Workers |-> 0]
    /\ exportCtxErr' = [w \in Workers |-> "nil"]
    /\ exportErr' = [w \in Workers |-> "nil"]
    /\ phaseLog' = [w \in Workers |-> << >>]
    /\ openTicks' = [w \in Workers |-> 0]
    /\ beganCancelled' = [w \in Workers |-> FALSE]
    /\ timedOut' = [w \in Workers |-> FALSE]
    /\ doneAtReturn' = [w \in Workers |-> FALSE]
    /\ cancelledAsleep' = [w \in Workers |-> FALSE]
    /\ bothReady' = [w \in Workers |-> FALSE]
    /\ series' = [w \in Workers |->
                     IF pc[w] = "stopped" THEN series[w] ELSE << >>]
    /\ armedFor' = [w \in Workers |-> NotTimed]
    /\ sinceFiring' = [w \in Workers |-> NotTimed]
    /\ dropped' = [w \in Workers |-> FALSE]
    /\ UNCHANGED << variant, cancelled, spawned, exporterOf, report, measurements,
                    catalogVars, offsetVars >>

\* log.Fatalf(...): prints and calls os.Exit(1); no deferred call runs.
Fatalf(msg) ==
    /\ Running
    /\ ProcessExit("nonzero", msg)
    /\ UNCHANGED shutdownCalls

(* ------------------------------ main() --------------------------------- *)

\* part_001: exporter, err = otlpmetric{http,grpc}.New(ctx, ...) succeeds;
\* defer exporter.Shutdown(ctx)
MainNewExporterOk ==
    /\ Running
    /\ mainpc = "newExporter"
    /\ mainpc' = "spawn"
    /\ UNCHANGED << catalogVars, offsetVars, variant, cancelled, exit, fatal, spawned, pc, exporterOf,
                    shutdownCalls, timerVars, tickVars >>

\* part_001: if err != nil { log.Fatalf("Failed to create OTLP exporter") }
MainNewExporterFails ==
    /\ mainpc = "newExporter"
    /\ Fatalf("exporter")

\* go generate(ctx, serviceName, metricNames, allAttributes, offset, interval, ...)
\* main.go passes opts and generate() builds the exporter; part_001 passes
\* the exporter main() built.
MainSpawn ==
    /\ Running
    /\ mainpc = "spawn"
    /\ spawned < Services
    /\ pc' = [pc EXCEPT ![spawned] =
                 IF variant = "main.go" THEN "newExporter" ELSE "resource"]
    /\ exporterOf' = [exporterOf EXCEPT ![spawned] =
                 IF variant = "main.go" THEN NoExporter ELSE MainExporter]
    /\ spawned' = spawned + 1
    /\ mainpc' = IF spawned + 1 = Services THEN "wait" ELSE "spawn"
    /\ UNCHANGED << catalogVars, offsetVars, variant, cancelled, exit, fatal, shutdownCalls,
                    timerVars, tickVars >>

\* <-ctx.Done(); log.Printf("Bye"); main returns: its deferred calls run
\* (part_001: exporter.Shutdown) and the process exits with status 0,
\* whatever the generate() goroutines are doing.
MainReturn ==
    /\ Running
    /\ mainpc = "wait"
    /\ cancelled
    /\ shutdownCalls' = IF variant = "part_001"
                        THEN [shutdownCalls EXCEPT ![MainExporter] = @ + 1]
                        ELSE shutdownCalls
    /\ ProcessExit("zero", "")

(* ------------------------- the environment ----------------------------- *)

\* SIGINT or SIGTERM: signal.NotifyContext cancels ctx.  An export context
\* derived from ctx that is not done yet becomes done with context.Canceled.
Signal ==
    /\ Running
    /\ ~cancelled
    /\ cancelled' = TRUE
    /\ exportCtxErr' = [w \in Workers |->
           IF pc[w] = "export" /\ exportCtxErr[w] = "nil"
           THEN "Canceled" ELSE exportCtxErr[w]]
    /\ cancelledAsleep' = [w \in Workers |->
           pc[w] = "sleep" /\ sleepLeft[w] > 0]
    /\ UNCHANGED << catalogVars, offsetVars, series, measurements, variant, exit, fatal, mainVars, pc, exporterOf,
                    shutdownCalls, timerVars, exportErr, report, phaseLog,
                    openTicks, beganCancelled, timedOut, doneAtReturn,
                    bothReady >>

\* One clock unit passes.  A running time.Sleep gets closer to its end; an
\* armed ticker gets closer to its next firing and, on firing, puts one value
\* into ticker.C unless one is already there (then the firing is dropped); an
\* export context that is not done reaches its deadline with
\* context.DeadlineExceeded.
Advance ==
    /\ Running
    /\ sleepLeft' = [w \in Workers |->
           IF sleepLeft[w] > 0 THEN sleepLeft[w] - 1 ELSE 0]
    /\ fireIn' = [w \in Workers |->
           IF fireIn[w] = 0 THEN 0
           ELSE IF fireIn[w] = 1 THEN interval ELSE fireIn[w] - 1]
    /\ pending' = [w \in Workers |-> pending[w] \/ fireIn[w] = 1]
    /\ dropped' = [w \in Workers |->
           openTicks[w] = 1 /\ pending[w] /\ fireIn[w] = 1]
    /\ sinceFiring' = [w \in Workers |->
           IF sinceFiring[w] = NotTimed THEN NotTimed
           ELSE IF fireIn[w] = 1 THEN 0 ELSE sinceFiring[w] + 1]
    /\ armedFor' = [w \in Workers |->
           IF armedFor[w] # NotTimed /\ armedFor[w] < interval
           THEN armedFor[w] + 1 ELSE armedFor[w]]
    /\ deadlineIn' = [w \in Workers |->
           IF deadlineIn[w] > 0 THEN deadlineIn[w] - 1 ELSE 0]
    /\ exportCtxErr' = [w \in Workers |->
           IF pc[w] = "export" /\ exportCtxErr[w] = "nil" /\ deadlineIn[w] = 1
           THEN "DeadlineExceeded" ELSE exportCtxErr[w]]
    /\ timedOut' = [w \in Workers |->
           timedOut[w] \/ (pc[w] = "export" /\ exportCtxErr[w] = "nil"
                                             /\ deadlineIn[w] = 1)]
    /\ UNCHANGED << catalogVars, offsetVars, series, measurements, variant, cancelled, exit, fatal, mainVars, pc, exporterOf,
                    shutdownCalls, exportErr, report, phaseLog, openTicks,
                    beganCancelled, doneAtReturn, cancelledAsleep, bothReady >>

(* ----------------------------- generate() ------------------------------ *)

\* main.go: exporter, err := opts.newExporter(ctx) succeeds;
\* defer exporter.Shutdown(ctx)
NewExporterOk(w) ==
    /\ Running
    /\ pc[w] = "newExporter"
    /\ pc' = [pc EXCEPT ![w] = "resource"]
    /\ exporterOf' = [exporterOf EXCEPT ![w] = w + 1]
    /\ UNCHANGED << catalogVars, offsetVars, variant, cancelled, exit, fatal, mainVars, shutdownCalls,
                    timerVars, tickVars >>

\* main.go: if err != nil { log.Fatalf("Failed to create OTLP exporter ...") }
NewExporterFails(w) ==
    /\ pc[w] = "newExporter"
    /\ Fatalf("exporter")

\* res, err := resource.New(ctx, ...) succeeds
NewResourceOk(w) ==
    /\ Running
    /\ pc[w] = "resource"
    /\ pc' = [pc EXCEPT ![w] = "gauges"]
    /\ UNCHANGED << catalogVars, offsetVars, variant, cancelled, exit, fatal, mainVars, exporterOf,
                    shutdownCalls, timerVars, tickVars >>

\* if err != nil { log.Fatalf("Failed to create resource ...") }
NewResourceFails(w) ==
    /\ pc[w] = "resource"
    /\ Fatalf("resource")

\* reader, provider, meter, and one Float64Gauge per metric name are made;
\* then time.Sleep(offset) starts.
NewGaugesOk(w) ==
    /\ Running
    /\ pc[w] = "gauges"
    /\ pc' = [pc EXCEPT ![w] = "sleep"]
    /\ sleepLeft' = [sleepLeft EXCEPT ![w] = offset(w)]
    /\ UNCHANGED << catalogVars, offsetVars, variant, cancelled, exit, fatal, mainVars, exporterOf,
                    shutdownCalls, fireIn, pending, deadlineIn, armedFor, sinceFiring, dropped,
                    tickVars >>

\* if err != nil { log.Fatalf("Failed to create gauge metric ...") }
NewGaugesFails(w) ==
    /\ pc[w] = "gauges"
    /\ Fatalf("gauge")

\* A call of tick() begins: its Record phase (Step 1) starts.
BeginTick(w) ==
    /\ pc' = [pc EXCEPT ![w] = "record"]
    /\ phaseLog' = [phaseLog EXCEPT ![w] = << "Record" >>]
    /\ openTicks' = [openTicks EXCEPT ![w] = @ + 1]
    /\ report' = [report EXCEPT ![w] = "none"]
    /\ measurements' = [measurements EXCEPT ![w] = 0]
    /\ beganCancelled' = [beganCancelled EXCEPT ![w] = cancelled]
    /\ timedOut' = [timedOut EXCEPT ![w] = FALSE]
    /\ cancelledAsleep' = [cancelledAsleep EXCEPT ![w] = FALSE]
    /\ bothReady' = [bothReady EXCEPT ![w] = FALSE]

\* Whether time.Sleep(offset) may return: once the offset has passed.
\* time.Sleep takes no context: ctx being cancelled does not end it.
SleepOver(w) == sleepLeft[w] = 0

\* time.Sleep(offset) returns; tick() is called next, whatever ctx says.
SleepReturn(w) ==
    /\ Running
    /\ pc[w] = "sleep"
    /\ SleepOver(w)
    /\ BeginTick(w)
    /\ UNCHANGED << catalogVars, offsetVars, series, variant, cancelled, exit, fatal, mainVars, exporterOf,
                    shutdownCalls, timerVars, exportCtxErr, exportErr,
                    doneAtReturn >>

\* fmt.Sprintf("metric-%04d", i) and fmt.Sprintf("service-%04d", i), as the
\* digit characters after the prefix
Sprintf04d(i) == ZeroPad(Digits(i), 4)

\* metricNames: one name per i in `for i := range cfg.Metrics`
MetricNames == { Sprintf04d(i) : i \in 0 .. (Metrics - 1) }

\* for _, gauge := range gauges { for _, attributes := range allAttributes {
\*     gauge.Record(ctx, rand.Float64(), metric.WithAttributes(attributes...)) } }
\* the series written by service w: one per gauge and element of allAttributes
RecordedBy(w) ==
    { << Sprintf04d(w), m, allAttributes[k] >> :
          m \in MetricNames, k \in 1 .. Len(allAttributes) }

\* Step 1: gauge.Record for every gauge and every attribute combination;
\* Step 2 (reader.Collect) starts.
Record(w) ==
    /\ Running
    /\ pc[w] = "record"
    /\ pc' = [pc EXCEPT ![w] = "collect"]
    /\ series' = [series EXCEPT ![w] = << RecordedBy(w) >>]
    /\ armedFor' = [armedFor EXCEPT ![w] = NotTimed]
    /\ phaseLog' = [phaseLog EXCEPT ![w] = Append(@, "Collect")]
    /\ UNCHANGED << catalogVars, offsetVars, measurements, variant, cancelled, exit, fatal, mainVars, exporterOf,
                    shutdownCalls, sleepLeft, fireIn, pending, deadlineIn, sinceFiring,
                    dropped, exportCtxErr, exportErr,
                    report, openTicks, beganCancelled, timedOut, doneAtReturn,
                    cancelledAsleep, bothReady >>

\* context.WithTimeout(ctx, exportTimeout): done at once when ctx is
\* cancelled already, or when the timeout is not positive.
NewExportCtxErr(v, c) ==
    IF c THEN "Canceled"
    ELSE IF exportTimeout(v) = 0 THEN "DeadlineExceeded" ELSE "nil"

\* Step 2: reader.Collect(ctx, &metrics) succeeds.
\* Step 3 begins: exportCtx is made and exporter.Export is called.
CollectOk(w) ==
    /\ Running
    /\ pc[w] = "collect"
    /\ pc' = [pc EXCEPT ![w] = "export"]
    /\ phaseLog' = [phaseLog EXCEPT ![w] = Append(@, "Export")]
    /\ deadlineIn' = [deadlineIn EXCEPT ![w] = exportTimeout(variant)]
    /\ exportCtxErr' = [exportCtxErr EXCEPT ![w] =
                           NewExportCtxErr(variant, cancelled)]
    /\ timedOut' = [timedOut EXCEPT ![w] =
                           NewExportCtxErr(variant, cancelled) = "DeadlineExceeded"]
    /\ UNCHANGED << catalogVars, offsetVars, series, measurements, variant, cancelled, exit, fatal, mainVars, exporterOf,
                    shutdownCalls, sleepLeft, fireIn, pending, armedFor, sinceFiring, dropped, exportErr,
                    report, openTicks, beganCancelled, doneAtReturn,
                    cancelledAsleep, bothReady >>

\* Step 2: if err := reader.Collect(ctx, &metrics); err != nil {
\*     log.Fatalf("Failed to collect metrics ...") }
CollectFails(w) ==
    /\ pc[w] = "collect"
    /\ Fatalf("collect")

\* What exporter.Export(exportCtx, &metrics) may return: while exportCtx is
\* not done, success (nil) or a transport error; once it is done, its error.
ExportResults(ctxErr) ==
    IF ctxErr = "nil" THEN {"nil", "other"} ELSE {ctxErr}

\* err = exporter.Export(exportCtx, &metrics) returns; cancel() releases
\* exportCtx.
ExportReturn(w) ==
    /\ Running
    /\ pc[w] = "export"
    /\ \E err \in ExportResults(exportCtxErr[w]) :
           exportErr' = [exportErr EXCEPT ![w] = err]
    /\ pc' = [pc EXCEPT ![w] = "report"]
    /\ deadlineIn' = [deadlineIn EXCEPT ![w] = 0]
    /\ exportCtxErr' = [exportCtxErr EXCEPT ![w] = "nil"]
    /\ doneAtReturn' = [doneAtReturn EXCEPT ![w] = cancelled]
    /\ UNCHANGED << catalogVars, offsetVars, series, measurements, variant, cancelled, exit, fatal, mainVars, exporterOf,
                    shutdownCalls, sleepLeft, fireIn, pending, armedFor, sinceFiring, dropped,
                    report, phaseLog, openTicks, beganCancelled, timedOut,
                    cancelledAsleep, bothReady >>

\* The result handling with `err == context.DeadlineExceeded` in place of
\* errors.Is: the exporter's wrapped deadline error is logged as a failure.
ReportOf_NoUnwrap(err, c) ==
    IF c THEN "none"
    ELSE IF err # "nil" THEN "error"
    ELSE "success"

\* if errors.Is(err, context.DeadlineExceeded) { log "Timeout after ..." }
\* else if ctx.Err() != nil { return }
\* else if err != nil { log "Failed to export ..." }
\* else { log "Exported ..." }
ReportOf(err, c) ==
    IF err = "DeadlineExceeded" THEN "timeout"
    ELSE IF c THEN "none"
    ELSE IF err # "nil" THEN "error"
    ELSE "success"

\* Where tick() returns to: `ticker := time.NewTicker(interval)` after the
\* first tick (no ticker yet), the loop's select after a later one.  No
\* branch of the result handling leaves generate().
AfterTick(w) == IF fireIn[w] = 0 THEN "arm" ELSE "select"

\* The number given to "Exported %d measurements": len(gauges), and gauges
\* has one element per metric name (main.go:169).
LenGauges == Cardinality(MetricNames)

\* The end of tick(): the outcome is logged and tick() returns.
Report(w) ==
    /\ Running
    /\ pc[w] = "report"
    /\ report' = [report EXCEPT ![w] = ReportOf(exportErr[w], cancelled)]
    /\ measurements' = [measurements EXCEPT ![w] =
                           IF ReportOf(exportErr[w], cancelled) = "success"
                           THEN LenGauges ELSE 0]
    /\ openTicks' = [openTicks EXCEPT ![w] = @ - 1]
    /\ exportErr' = [exportErr EXCEPT ![w] = "nil"]
    /\ pc' = [pc EXCEPT ![w] = AfterTick(w)]
    /\ beganCancelled' = [beganCancelled EXCEPT ![w] = FALSE]
    /\ doneAtReturn' = [doneAtReturn EXCEPT ![w] = FALSE]
    /\ bothReady' = [bothReady EXCEPT ![w] =
                        /\ AfterTick(w) = "select"
                        /\ cancelled /\ ~beganCancelled[w]
                        /\ pending[w]]
    /\ UNCHANGED << catalogVars, offsetVars, series, variant, cancelled, exit, fatal, mainVars, exporterOf,
                    shutdownCalls, timerVars, exportCtxErr, phaseLog, timedOut,
                    cancelledAsleep >>

\* A ticker that fires at once when it is made (a first firing is put into
\* ticker.C by hand, or the timer is reset to zero).
ArmTicker_Primed(w) ==
    /\ Running
    /\ pc[w] = "arm"
    /\ fireIn' = [fireIn EXCEPT ![w] = interval]
    /\ pending' = [pending EXCEPT ![w] = TRUE]
    /\ pc' = [pc EXCEPT ![w] = "select"]
    /\ armedFor' = [armedFor EXCEPT ![w] = 0]
    /\ sinceFiring' = [sinceFiring EXCEPT ![w] = 0]
    /\ UNCHANGED << catalogVars, offsetVars, variant, cancelled, exit, fatal,
                    mainVars, exporterOf, shutdownCalls, sleepLeft, deadlineIn,
                    dropped, tickVars >>

\* ticker := time.NewTicker(interval); defer ticker.Stop()
ArmTicker(w) ==
    /\ Running
    /\ pc[w] = "arm"
    /\ fireIn' = [fireIn EXCEPT ![w] = interval]
    /\ pc' = [pc EXCEPT ![w] = "select"]
    /\ armedFor' = [armedFor EXCEPT ![w] = 0]
    /\ sinceFiring' = [sinceFiring EXCEPT ![w] = 0]
    /\ UNCHANGED << catalogVars, offsetVars, variant, cancelled, exit, fatal, mainVars, exporterOf,
                    shutdownCalls, sleepLeft, pending, deadlineIn, dropped, tickVars >>

\* The loop with `case <-ticker.C: go tick()`: it is back at its select
\* while the tick it started still runs.
LoopAtSelect_Async(w) ==
    pc[w] \in {"select", "record", "collect", "export", "report"}

\* `for { select { ... } }`: the loop is at its select only between two
\* ticks; `case <-ticker.C: tick()` calls tick() and waits for its return.
LoopAtSelect(w) == pc[w] = "select"

\* select { case <-ctx.Done(): return ... }: generate() returns and its
\* deferred calls run: ticker.Stop(), provider.Shutdown(ctx) and, in main.go,
\* exporter.Shutdown(ctx).
SelectDone(w) ==
    /\ Running
    /\ LoopAtSelect(w)
    /\ cancelled
    /\ pc' = [pc EXCEPT ![w] = "stopped"]
    /\ fireIn' = [fireIn EXCEPT ![w] = 0]
    /\ pending' = [pending EXCEPT ![w] = FALSE]
    /\ armedFor' = [armedFor EXCEPT ![w] = NotTimed]
    /\ sinceFiring' = [sinceFiring EXCEPT ![w] = NotTimed]
    /\ dropped' = [dropped EXCEPT ![w] = FALSE]
    /\ shutdownCalls' = IF variant = "main.go"
                        THEN [shutdownCalls EXCEPT ![exporterOf[w]] = @ + 1]
                        ELSE shutdownCalls
    /\ bothReady' = [bothReady EXCEPT ![w] = FALSE]
    /\ UNCHANGED << catalogVars, offsetVars, series, measurements, variant, cancelled, exit, fatal, mainVars, exporterOf,
                    sleepLeft, deadlineIn, exportCtxErr, exportErr, report,
                    phaseLog, openTicks, beganCancelled, timedOut, doneAtReturn,
                    cancelledAsleep >>

\* A loop that ticks whenever it is at its select (a `default:` case, or a
\* closed channel).
TickerCaseReady_Always(w) == TRUE

\* The guard of `case <-ticker.C:`: ticker.C holds a firing.  The select
\* does not rank its cases: when ctx.Done() is ready too, Go takes either.
TickerCaseReady(w) == pending[w]

\* select { ... case <-ticker.C: tick() }
SelectTick(w) ==
    /\ Running
    /\ LoopAtSelect(w)
    /\ TickerCaseReady(w)
    /\ pending' = [pending EXCEPT ![w] = FALSE]
    /\ BeginTick(w)
    /\ UNCHANGED << catalogVars, offsetVars, series, variant, cancelled, exit, fatal, mainVars, exporterOf,
                    shutdownCalls, sleepLeft, fireIn, deadlineIn, armedFor, sinceFiring,
                    dropped, exportCtxErr,
                    exportErr, doneAtReturn >>

Worker(w) ==
    \/ NewExporterOk(w)
    \/ NewExporterFails(w)
    \/ NewResourceOk(w)
    \/ NewResourceFails(w)
    \/ NewGaugesOk(w)
    \/ NewGaugesFails(w)
    \/ SleepReturn(w)
    \/ Record(w)
    \/ CollectOk(w)
    \/ CollectFails(w)
    \/ ExportReturn(w)
    \/ Report(w)
    \/ ArmTicker(w)
    \/ SelectDone(w)
    \/ SelectTick(w)

Next ==
    \/ MainNewExporterOk
    \/ MainNewExporterFails
    \/ MainSpawn
    \/ MainReturn
    \/ Signal
    \/ Advance
    \/ \E w \in Workers : Worker(w)

Spec == Init /\ [][Next]_vars

(* ------------- the enumerator on every small configuration ------------- *)

schedVars == << variant, cancelled, exit, fatal, mainpc, spawned, pc,
                exporterOf, shutdownCalls, sleepLeft, fireIn, pending,
                deadlineIn, exportCtxErr, exportErr, report, phaseLog,
                openTicks, beganCancelled, timedOut, doneAtReturn,
                cancelledAsleep, bothReady, measurements, armedFor,
                sinceFiring, dropped >>

\* main() is about to run slices.Collect(iterateAttributes(cfg.Attributes))
\* (iterateAttributes is the same in both revisions).
IterInit ==
    /\ SchedInit
    /\ OffsetsOfScheduler
    /\ variant = "main.go"
    /\ attrConfigs \in SeqsUpTo(AttributeConfigs, MaxAttrs) \cup LargeConfigs
    /\ allAttributes = << >>
    /\ collected = FALSE

\* allAttributes := slices.Collect(iterateAttributes(cfg.Attributes)):
\* slices.Collect appends every value the iterator yields, and returns.
\* (A behaviour follows one consumer of the iterator: slices.Collect, the
\* iterations one by one, or a consumer that stops early.)
Collect ==
    /\ ~collected
    /\ Enumerable(attrConfigs)
    /\ stopAfter = 0
    /\ yielded = << >>
    /\ allAttributes' = IterateAttributes(attrConfigs)
    /\ collected' = TRUE
    /\ UNCHANGED << attrConfigs, stopAfter, yieldCalls, yielded, schedVars,
                    series, offsetVars >>

\* The iterations of `for i := range attrConfigs[0].Cardinality` that are
\* followed one by one: the first and the last.
FollowedIterations(cardinality) == { 0, cardinality - 1 }

\* One iteration of the loop of iterateAttributes on a single definition:
\*   attrs := []attribute.KeyValue{attribute.String(name, "%09d" of i)}
\*   ... else { yield(attrs) }
YieldOne ==
    /\ ~collected
    /\ stopAfter = 0
    /\ Len(attrConfigs) = 1
    /\ \E i \in FollowedIterations(attrConfigs[1].Cardinality) :
           yielded' = << << AttributeString(attrConfigs[1].Name, i) >> >>
    /\ UNCHANGED << attrConfigs, allAttributes, collected, stopAfter,
                    yieldCalls, schedVars, series, offsetVars >>

\* iterateAttributes(attrConfigs) run by a consumer whose yield returns
\* false from its k-th call on, k less than the number of combinations.
\* The results of yield(...) at main.go:235 and main.go:238 are discarded,
\* so the loops go on: a yield that is a plain function is called for
\* every remaining combination; a yield that is the body of a `for ...
\* range` loop panics when it is called after it has returned false, which
\* ends the enumeration inside call k+1.
ConsumeUntil(k) ==
    /\ ~collected
    /\ Enumerable(attrConfigs)
    /\ stopAfter = 0
    /\ k \in 1 .. MaxStop
    /\ LET total == Len(IterateAttributes(attrConfigs))
       IN  /\ k < total
           /\ stopAfter' = k
           /\ yieldCalls' \in { k + 1, total }
    /\ UNCHANGED << attrConfigs, allAttributes, collected, yielded, schedVars,
                    series, offsetVars >>

\* Step 1 of one tick of service w, run on the catalog main() built.
IterRecord(w) ==
    /\ collected
    /\ series' = [series EXCEPT ![w] = << RecordedBy(w) >>]
    /\ UNCHANGED << catalogVars, offsetVars, schedVars >>

IterNext ==
    \/ Collect
    \/ \E w \in Workers : IterRecord(w)
    \/ YieldOne
    \/ \E k \in 1 .. MaxStop : ConsumeUntil(k)

IterSpec == IterInit /\ [][IterNext]_vars

(* ------------ the stagger offsets on every small configuration -------- *)

\* time.Second, in nanoseconds (the unit of time.Duration)
NanosPerSecond == 1000000000

\* The smallest positive integer that float32 cannot represent: 2^24 + 1.
FirstInexact == 2 ^ MantissaBits + 1

\* The service counts checked: the small ones, and the first one whose
\* conversion to float32 rounds.
ServiceCounts == (1 .. MaxOffsetServices) \cup { FirstInexact }

\* The loop indices followed: all of them for a small service count, the
\* first and the last two for a large one.
Indices(n) ==
    IF n <= MaxOffsetServices THEN 0 .. (n - 1)
    ELSE { 0, 1, n - 2, n - 1 }

\* main() has read and clamped its configuration (main.go:100-106).
OffsetInit ==
    /\ SchedInit
    /\ variant = "main.go"
    /\ attrConfigs = ExampleAttributes
    /\ allAttributes = IterateAttributes(ExampleAttributes)
    /\ collected = TRUE
    /\ nServices \in ServiceCounts
    /\ ival \in { k * NanosPerSecond : k \in 1 .. MaxOffsetInterval }
    /\ offsets = << >>

\* for i := range cfg.Services { offset := time.Duration(float32(interval) *
\*     float32(i) / float32(cfg.Services)); ... }
MainOffsets ==
    /\ offsets = << >>
    /\ offsets' = << [i \in Indices(nServices) |-> OffsetOf(i, nServices, ival)] >>
    /\ UNCHANGED << nServices, ival, catalogVars, schedVars, series >>

OffsetNext == MainOffsets

OffsetSpec == OffsetInit /\ [][OffsetNext]_vars

(* ======================================================================= *)
(*                     Properties of the scheduler                         *)
(* ======================================================================= *)

\* C1: once the cancellation signal has fired, the loop of a worker in the
\* Ticking state begins no new tick, also when a firing is pending in
\* ticker.C at the moment it selects on ctx.Done() and ticker.C together
\* (stated for this case: the signal came during a tick, and tick() returned
\* to the select with ctx.Done() and ticker.C both ready).
C1_NoTickAfterCancel ==
    [][\A w \in Workers :
          (pc[w] = "select" /\ bothReady[w]) => pc'[w] # "record"]_vars

\* C2: a worker that is in time.Sleep(offset), with offset left to sleep,
\* when the cancellation signal fires stops (or dies with the process)
\* without beginning its first tick.
C2_OffsetSleepInterruptible ==
    [][\A w \in Workers :
          (cancelledAsleep[w] /\ pc[w] = "sleep")
              => pc'[w] \in {"sleep", "stopped", "killed"}]_vars

\* C3: a tick whose export call returned after the cancellation signal had
\* fired logs nothing (no timeout, no failure, no success), whatever the
\* export returned.
C3_SilentAfterCancel ==
    [][\A w \in Workers :
          (pc[w] = "report" /\ doneAtReturn[w]) => report'[w] = "none"]_vars

\* C4: a tick whose export ran into its deadline while ctx was not cancelled
\* logs a timeout and returns into the Ticking state (to arming the ticker
\* or to the loop's select); and the loop, while ctx is not cancelled, leaves
\* its select only for a new tick, on a firing of the ticker.
C4_TimeoutThenNextTick ==
    /\ [](\A w \in Workers :
            (timedOut[w] /\ openTicks[w] = 0 /\ ~cancelled /\ Running)
                => (report[w] = "timeout" /\ pc[w] \in {"arm", "select"}))
    /\ [][\A w \in Workers :
            (pc[w] = "select" /\ ~cancelled /\ pc'[w] # "select" /\ exit' = "running")
                => (pending[w] /\ pc'[w] = "record")]_vars

\* C4 witness: a tick has timed out and logged it, ctx is not cancelled, the
\* worker is back at its select and the next firing is there.
C4_Witness ==
    \E w \in Workers :
        /\ timedOut[w] /\ report[w] = "timeout" /\ ~cancelled
        /\ pc[w] = "select" /\ pending[w]

\* C5: the process never ends on a failure inside a tick: a non-zero exit
\* comes from a setup failure (exporter, resource, gauge) only.
C5_OnlySetupIsFatal ==
    exit = "nonzero" => fatal \in {"exporter", "resource", "gauge"}

\* C6: a worker's tick runs Record, Collect, Export in this order, and at
\* most one call of tick() is open per worker: a tick begins only when the
\* previous one has returned.
C6_PhasesInOrderNoOverlap ==
    \A w \in Workers :
        /\ openTicks[w] \in {0, 1}
        /\ phaseLog[w] \in { << >>, << "Record" >>, << "Record", "Collect" >>,
                             << "Record", "Collect", "Export" >> }
        /\ pc[w] = "record" => (phaseLog[w] = << "Record" >> /\ openTicks[w] = 1)
        /\ pc[w] = "collect" => (phaseLog[w] = << "Record", "Collect" >> /\ openTicks[w] = 1)
        /\ pc[w] \in {"export", "report"} =>
               (phaseLog[w] = << "Record", "Collect", "Export" >> /\ openTicks[w] = 1)
        /\ pc[w] \in {"arm", "select", "stopped"} => openTicks[w] = 0

\* C6 witness: a timer-driven tick (the ticker is armed, so an earlier tick
\* has returned) is in its Export phase.
C6_Witness ==
    \E w \in Workers :
        /\ pc[w] = "export" /\ fireIn[w] > 0
        /\ phaseLog[w] = << "Record", "Collect", "Export" >>

\* C7: after the cancellation signal every worker's in-flight export is
\* cancelled (its context is done), and on its way to Stopped no worker
\* completes a further tick: a tick begun after the signal never returns.
\* (The liveness half, "eventually Stopped", is not part of this formula.)
C7_CancelNoFurtherTick ==
    /\ [](\A w \in Workers :
            (cancelled /\ pc[w] = "export") => exportCtxErr[w] # "nil")
    /\ [][\A w \in Workers :
            (pc[w] = "report" /\ beganCancelled[w])
                => pc'[w] \in {"report", "killed"}]_vars

\* C8: every service's exporter is shut down exactly once: never twice, and
\* once the process has ended, not zero times.
C8_ShutdownExactlyOnce ==
    /\ \A e \in Exporters : shutdownCalls[e] <= 1
    /\ exit # "running" =>
           \A w \in Workers :
               exporterOf[w] # NoExporter => shutdownCalls[exporterOf[w]] = 1

\* C9: the exporter a worker exports through is used by no other worker:
\* no two workers are ever inside Export on the same exporter.
C9_ExclusiveSink ==
    \A w1, w2 \in Workers :
        (w1 # w2 /\ pc[w1] = "export" /\ pc[w2] = "export")
            => exporterOf[w2] # exporterOf[w1]

\* C14: once the cancellation signal has been received the process ends
\* with status zero: no step a worker's tick takes after the signal ends the
\* process with a non-zero status (stated for the tick's Collect step; a
\* setup step that fails after the signal is left aside).
C14_ZeroExitAfterSignal ==
    [][\A w \in Workers :
          (cancelled /\ pc[w] = "collect" /\ exit = "running")
              => ~(exit' = "nonzero" /\ fatal' = "collect")]_vars

\* C15: the deadline a tick gives its export is strictly shorter than the
\* tick interval (stated where it is used: whenever a worker is in Export).
C15_DeadlineShorterThanInterval ==
    \A w \in Workers :
        pc[w] = "export" => exportTimeout(variant) < interval

\* C16: a tick that logs a successful export reports the number of points
\* of the exported batch: one per gauge and attribute combination recorded.
C16_ReportsPointCount ==
    \A w \in Workers :
        (report[w] = "success" /\ series[w] # << >>)
            => measurements[w] = Cardinality(series[w][1])

\* The positions of generate() before its first tick.
BeforeFirstTick == {"unborn", "newExporter", "resource", "gauges", "sleep"}

\* C17: a worker runs one tick right after its offset sleep, with no ticker
\* yet; the ticker is armed only when that tick has returned; every later
\* tick begins by taking one firing out of ticker.C; and the second tick
\* begins no earlier than one interval after the ticker was armed, hence
\* after the first tick returned.
C17_FirstTickThenTimer ==
    /\ [](\A w \in Workers :
            /\ pc[w] \in BeforeFirstTick => (fireIn[w] = 0 /\ openTicks[w] = 0)
            /\ (pc[w] = "record" /\ armedFor[w] # NotTimed)
                   => armedFor[w] >= interval)
    /\ [][\A w \in Workers :
            /\ (pc[w] = "sleep" /\ pc'[w] \notin {"sleep", "killed"})
                   => (pc'[w] = "record" /\ fireIn'[w] = 0)
            /\ (pc[w] # "record" /\ pc'[w] = "record" /\ fireIn[w] = 0)
                   => pc[w] = "sleep"
            /\ (pc[w] # "sleep" /\ pc'[w] = "sleep") => pc[w] = "gauges"
            /\ (fireIn[w] = 0 /\ fireIn'[w] > 0)
                   => (pc[w] = "arm" /\ openTicks[w] = 0 /\ fireIn'[w] = interval
                       /\ phaseLog[w] = << "Record", "Collect", "Export" >>)
            /\ (pc[w] # "arm" /\ pc'[w] = "arm")
                   => (pc[w] = "report" /\ fireIn[w] = 0)
            /\ (pc[w] = "select" /\ pc'[w] = "record")
                   => (pending[w] /\ ~pending'[w])]_vars

\* C17 witness: the second tick of a worker has begun, one interval (or
\* more) after its ticker was armed, and no signal has come.
C17_Witness ==
    \E w \in Workers :
        /\ pc[w] = "record" /\ armedFor[w] = interval
        /\ fireIn[w] > 0 /\ ~pending[w] /\ ~cancelled

\* C20: a worker ticks no faster than its ticker fires.  A timer-driven tick
\* begins only by taking the one firing ticker.C holds, leaving it empty; a
\* firing comes only when a full interval has passed since the ticker was
\* armed or last fired; a firing onto a full ticker.C is dropped, not
\* queued.  So the k-th timer-driven tick has taken the k-th firing or a
\* later one, and begins k intervals after the arming at the earliest, also
\* after a tick during which firings were missed.
C20_TickRateBoundedByTimer ==
    /\ [](\A w \in Workers :
            /\ sinceFiring[w] # NotTimed
                   => (sinceFiring[w] < interval /\ fireIn[w] > 0)
            /\ (pending[w] \/ dropped[w]) => fireIn[w] > 0)
    /\ [][\A w \in Workers :
            /\ (pc[w] = "select" /\ pc'[w] = "record")
                   => (pending[w] /\ ~pending'[w] /\ fireIn[w] > 0)
            /\ ((~pending[w] /\ pending'[w]) \/ (~dropped[w] /\ dropped'[w]))
                   => (sinceFiring[w] + 1 = interval /\ sinceFiring'[w] = 0)
            /\ (~dropped[w] /\ dropped'[w]) => (pending[w] /\ pending'[w])]_vars

\* C20 witness: during a timer-driven tick the ticker fired onto a full
\* ticker.C; the tick has returned, the loop has taken the one firing there
\* was and begun the next tick, and ticker.C is empty.
C20_Witness ==
    \E w \in Workers :
        /\ dropped[w] /\ pc[w] = "record" /\ fireIn[w] > 0
        /\ ~pending[w] /\ ~cancelled

(* ======================================================================= *)
(*                     Properties of the enumerator                        *)
(* ======================================================================= *)

\* C10: for a non-empty list of definitions (cardinalities >= 1) the
\* enumerator yields as many combinations as the product of the
\* cardinalities; for the empty list it yields nothing.
C10_CountIsProduct ==
    collected =>
        Len(allAttributes) =
            IF attrConfigs = << >> THEN 0 ELSE AttrCardinality(attrConfigs)

\* C10 witness: three definitions of cardinalities 2, 3, 2 have been
\* enumerated: 12 combinations.
C10_Witness ==
    /\ collected
    /\ Len(attrConfigs) = 3
    /\ attrConfigs[1].Cardinality = 2
    /\ attrConfigs[2].Cardinality = 3
    /\ attrConfigs[3].Cardinality = 2
    /\ Len(allAttributes) = 12

\* The weight of position j in the mixed-radix system of cfgs: the product
\* of the cardinalities of the definitions after j.
RECURSIVE WeightOf(_, _)
WeightOf(cfgs, j) ==
    IF j >= Len(cfgs) THEN 1
    ELSE cfgs[j + 1].Cardinality * WeightOf(cfgs, j + 1)

\* Digit j (1 is the most significant) of k written in mixed radix.
MixedRadixDigit(cfgs, k, j) == (k \div WeightOf(cfgs, j)) % cfgs[j].Cardinality

\* C11: the combinations come in odometer order: the k-th one (from 0) is k
\* written in mixed radix, the first definition being the most significant
\* digit and the last definition's value cycling fastest.
C11_OdometerOrder ==
    (collected /\ attrConfigs # << >>) =>
        \A k \in 1 .. Len(allAttributes) :
            /\ Len(allAttributes[k]) = Len(attrConfigs)
            /\ \A j \in 1 .. Len(attrConfigs) :
                   allAttributes[k][j].Value =
                       Sprintf09d(MixedRadixDigit(attrConfigs, k - 1, j))

\* C11 witness: the list of the test, cardinalities 1, 2, 3, has been
\* enumerated: 6 combinations, the fourth being (0, 1, 0) and the last
\* (0, 1, 2).
C11_Witness ==
    /\ collected
    /\ Len(attrConfigs) = 3
    /\ attrConfigs[1].Cardinality = 1
    /\ attrConfigs[2].Cardinality = 2
    /\ attrConfigs[3].Cardinality = 3
    /\ Len(allAttributes) = 6
    /\ allAttributes[4][2].Value = Sprintf09d(1)
    /\ allAttributes[4][3].Value = Sprintf09d(0)
    /\ allAttributes[6][3].Value = Sprintf09d(2)

\* log.Printf("Total series %d", cfg.Services*cfg.Metrics*attrCardinality)
TotalSeries == Services * Metrics * AttrCardinality(attrConfigs)

\* C12: once every service has run Step 1 of one tick, the number of distinct
\* series (service, metric name, attribute combination) recorded equals
\* Services x Metrics x the product of the cardinalities, the value logged
\* as "Total series".
C12_SeriesCountIsTotal ==
    (collected /\ \A w \in Workers : series[w] # << >>) =>
        Cardinality(UNION { series[w][1] : w \in Workers }) = TotalSeries

(* ======================================================================= *)
(*                   Properties of the stagger offsets                     *)
(* ======================================================================= *)

\* C13: the offset of service 0 is 0, the offsets do not decrease with the
\* service index, and the offset of the last service, n - 1, is strictly
\* less than the interval.
C13_OffsetsStaggerWithinInterval ==
    offsets # << >> =>
        LET off == offsets[1]
        IN  /\ off[0] = 0
            /\ \A i, j \in DOMAIN off : i <= j => off[i] <= off[j]
            /\ off[nServices - 1] < ival

\* The value of a sequence of decimal digits.
RECURSIVE DecimalOf(_)
DecimalOf(d) ==
    IF d = << >> THEN 0
    ELSE 10 * DecimalOf(SubSeq(d, 1, Len(d) - 1)) + d[Len(d)]

\* "000000000"
NineZeros == << 0, 0, 0, 0, 0, 0, 0, 0, 0 >>

\* `combination` has one (name, value) pair per definition of cfgs, in
\* their order; pair i has the name of definition i and a value of nine
\* decimal digits that reads as a number in [0, cardinality_i); a
\* definition of cardinality 1 contributes "000000000".
WellFormed(combination, cfgs) ==
    /\ Len(combination) = Len(cfgs)
    /\ \A i \in 1 .. Len(cfgs) :
           /\ combination[i].Key = cfgs[i].Name
           /\ Len(combination[i].Value) = Len(NineZeros)
           /\ \A p \in 1 .. Len(combination[i].Value) :
                  combination[i].Value[p] \in 0 .. 9
           /\ DecimalOf(combination[i].Value) \in 0 .. (cfgs[i].Cardinality - 1)
           /\ cfgs[i].Cardinality = 1 => combination[i].Value = NineZeros

\* C18: every combination iterateAttributes yields for n >= 1 definitions
\* has exactly n (name, value) pairs in the order of the definitions, pair
\* i carrying the name of definition i and a value in [0, cardinality_i)
\* rendered as a 9-digit zero-padded decimal string, "000000000" for a
\* definition of cardinality 1: of the combinations slices.Collect
\* gathered, and of the one a followed iteration yielded.
C18_NineDigitPairs ==
    /\ collected =>
           \A k \in 1 .. Len(allAttributes) :
               WellFormed(allAttributes[k], attrConfigs)
    /\ yielded # << >> => WellFormed(yielded[1], attrConfigs)

\* C19: once the yield of its consumer has returned false (the consumer
\* stopped after stopAfter combinations, fewer than there are), the
\* enumerator calls yield no further time: the calls it made are the
\* stopAfter calls up to the one that returned false.
C19_StopsWhenYieldReturnsFalse ==
    stopAfter > 0 => yieldCalls = stopAfter

====
